---- MODULE Spec2Model ----
(***************************************************************************)
(* A model of the file-ops backend: the configuration store (config.py),   *)
(* and the upload / list / download / delete / editor-config / callback    *)
(* request handlers of main.py working on the upload directory.            *)
(*                                                                         *)
(* Python values are written <<tag, payload>>:                             *)
(*   <<"none",0>>  <<"bool",b>>  <<"int",n>>  <<"float",<<m,e>>>> (m*10^e) *)
(*   <<"inf",s>>  <<"nan",0>>  <<"str",s>>  <<"list",seq>>  <<"tuple",seq>>*)
(*   <<"dict",f>> (f a function from strings)  <<"obj",name>> (any object  *)
(*   the json module cannot serialise); further strings are <<"text",cs>>  *)
(*   (kept as characters), <<"isotime",t>> (datetime.isoformat() at clock  *)
(*   instant t), <<"filename",<<id,suffix>>>> and <<"jwt",<<key,payload>>>>*)
(*   (the token jwt.encode gives for a payload under a key).               *)
(* Text that the code inspects character by character (environment values, *)
(* dotted keys, file names, uploaded bytes) is a sequence of one-character *)
(* strings.                                                                *)
(***************************************************************************)
EXTENDS Integers, Sequences, FiniteSets, TLC

\* ------------------------------------------------------------ bounds
\* longest environment value enumerated exhaustively over EnvAlphabet
MaxEnvLen == 3

\* identifiers uuid4 hands out in one run
MaxIds == 2

\* instants the clock runs through
MaxTime == 2

\* clock instants per epoch second
TicksPerSecond == 2

\* request handlers in flight at once
MaxInflight == 2

\* ------------------------------------------------------------ characters
DigitChars == {"0", "1", "2", "3", "4", "5", "6", "7", "8", "9"}

DigitVal(c) ==
    CASE c = "0" -> 0 [] c = "1" -> 1 [] c = "2" -> 2 [] c = "3" -> 3
      [] c = "4" -> 4 [] c = "5" -> 5 [] c = "6" -> 6 [] c = "7" -> 7
      [] c = "8" -> 8 [] c = "9" -> 9

LowerLetters ==
    <<"a", "b", "c", "d", "e", "f", "g", "h", "i", "j", "k", "l", "m",
      "n", "o", "p", "q", "r", "s", "t", "u", "v", "w", "x", "y", "z">>

UpperLetters ==
    <<"A", "B", "C", "D", "E", "F", "G", "H", "I", "J", "K", "L", "M",
      "N", "O", "P", "Q", "R", "S", "T", "U", "V", "W", "X", "Y", "Z">>

\* str.lower() and str.upper(), one character at a time
LowerChar(c) ==
    IF \E i \in 1..26 : UpperLetters[i] = c
    THEN LowerLetters[CHOOSE i \in 1..26 : UpperLetters[i] = c]
    ELSE c

UpperChar(c) ==
    IF \E i \in 1..26 : LowerLetters[i] = c
    THEN UpperLetters[CHOOSE i \in 1..26 : LowerLetters[i] = c]
    ELSE c

Lower(cs) == [i \in 1..Len(cs) |-> LowerChar(cs[i])]

Upper(cs) == [i \in 1..Len(cs) |-> UpperChar(cs[i])]

\* str.replace(old, new) for single characters
Replace(cs, old, new) == [i \in 1..Len(cs) |-> IF cs[i] = old THEN new ELSE cs[i]]

\* the Python string a character sequence spells
RECURSIVE Join(_)
Join(cs) == IF cs = <<>> THEN "" ELSE Head(cs) \o Join(Tail(cs))

Chars(s) ==
    CASE s = "true" -> <<"t", "r", "u", "e">>
      [] s = "false" -> <<"f", "a", "l", "s", "e">>
      [] s = "null" -> <<"n", "u", "l", "l">>
      [] s = "inf" -> <<"i", "n", "f">>
      [] s = "infinity" -> <<"i", "n", "f", "i", "n", "i", "t", "y">>
      [] s = "nan" -> <<"n", "a", "n">>

StartsWith(cs, pre) == Len(cs) >= Len(pre) /\ SubSeq(cs, 1, Len(pre)) = pre

Drop(cs, n) == SubSeq(cs, n + 1, Len(cs))

\* whitespace as str.strip(), int(), float() and the json scanner see it
WhitespaceChars == {" "}

RECURSIVE LStrip(_)
LStrip(cs) ==
    IF cs # <<>> /\ Head(cs) \in WhitespaceChars THEN LStrip(Tail(cs)) ELSE cs

RECURSIVE RStrip(_)
RStrip(cs) ==
    IF cs # <<>> /\ cs[Len(cs)] \in WhitespaceChars
    THEN RStrip(SubSeq(cs, 1, Len(cs) - 1))
    ELSE cs

Strip(cs) == RStrip(LStrip(cs))

\* index of the first character of cs that is in set, 0 when there is none
FirstIn(cs, set) ==
    IF \E i \in 1..Len(cs) : cs[i] \in set
    THEN CHOOSE i \in 1..Len(cs) : cs[i] \in set /\ \A j \in 1..(i - 1) : cs[j] \notin set
    ELSE 0

\* ------------------------------------------------------------ numbers
\* digits with single underscores between them (PEP 515), as int() and
\* float() accept them
IsDigitRun(cs) ==
    /\ cs # <<>>
    /\ \A i \in 1..Len(cs) : cs[i] \in DigitChars \cup {"_"}
    /\ cs[1] \in DigitChars
    /\ cs[Len(cs)] \in DigitChars
    /\ \A i \in 1..(Len(cs) - 1) : ~(cs[i] = "_" /\ cs[i + 1] = "_")

RECURSIVE DecVal(_)
DecVal(cs) ==
    IF cs = <<>> THEN 0
    ELSE LET front == SubSeq(cs, 1, Len(cs) - 1)
             last == cs[Len(cs)]
         IN IF last = "_" THEN DecVal(front) ELSE DecVal(front) * 10 + DigitVal(last)

RECURSIVE CountDigits(_)
CountDigits(cs) ==
    IF cs = <<>> THEN 0
    ELSE (IF Head(cs) \in DigitChars THEN 1 ELSE 0) + CountDigits(Tail(cs))

HasSign(cs) == cs # <<>> /\ Head(cs) \in {"+", "-"}

Unsigned(cs) == IF HasSign(cs) THEN Tail(cs) ELSE cs

SignOf(cs) == IF cs # <<>> /\ Head(cs) = "-" THEN -1 ELSE 1

\* int(value): does the builtin accept the text (base 10)
IsPyInt(cs) == IsDigitRun(Unsigned(Strip(cs)))

PyInt(cs) == <<"int", SignOf(Strip(cs)) * DecVal(Unsigned(Strip(cs)))>>

\* a float m * 10^e in normal form: m not divisible by 10, zero is <<0, 0>>
RECURSIVE NormFloat(_, _)
NormFloat(m, e) ==
    IF m = 0 THEN <<0, 0>>
    ELSE IF m % 10 = 0 THEN NormFloat(m \div 10, e + 1)
    ELSE <<m, e>>

RECURSIVE NumDigits(_)
NumDigits(n) == IF n < 10 THEN 1 ELSE 1 + NumDigits(n \div 10)

\* the double nearest to sign * m * 10^e: overflow gives inf, underflow 0.0
MakeFloat(sign, m, e) ==
    LET n == NormFloat(m, e)
    IN IF n[1] # 0 /\ n[2] + NumDigits(n[1]) > 309 THEN <<"inf", sign>>
       ELSE IF n[1] # 0 /\ n[2] + NumDigits(n[1]) < -323 THEN <<"float", <<0, 0>>>>
       ELSE <<"float", <<sign * n[1], n[2]>>>>

\* the decimal part of a float literal: mantissa text and exponent text
MantissaOf(body) ==
    LET k == FirstIn(body, {"e", "E"})
    IN IF k = 0 THEN body ELSE SubSeq(body, 1, k - 1)

ExponentOf(body) ==
    LET k == FirstIn(body, {"e", "E"})
    IN IF k = 0 THEN <<>> ELSE Drop(body, k)

IntPartOf(mant) ==
    LET k == FirstIn(mant, {"."})
    IN IF k = 0 THEN mant ELSE SubSeq(mant, 1, k - 1)

FracPartOf(mant) ==
    LET k == FirstIn(mant, {"."})
    IN IF k = 0 THEN <<>> ELSE Drop(mant, k)

IsMantissa(mant) ==
    LET ip == IntPartOf(mant)
        fp == FracPartOf(mant)
    IN /\ ip = <<>> \/ IsDigitRun(ip)
       /\ fp = <<>> \/ IsDigitRun(fp)
       /\ ip # <<>> \/ fp # <<>>

IsDecimalLiteral(body) ==
    /\ IsMantissa(MantissaOf(body))
    /\ FirstIn(body, {"e", "E"}) # 0 => IsDigitRun(Unsigned(ExponentOf(body)))

DecimalValue(sign, body) ==
    LET mant == MantissaOf(body)
        ex == ExponentOf(body)
        fp == FracPartOf(mant)
        m == DecVal(IntPartOf(mant) \o fp)
        e == SignOf(ex) * DecVal(Unsigned(ex)) - CountDigits(fp)
    IN MakeFloat(sign, m, e)

\* float(value): does the builtin accept the text
IsPyFloat(cs) ==
    LET body == Unsigned(Strip(cs))
    IN \/ Lower(body) \in {Chars("inf"), Chars("infinity"), Chars("nan")}
       \/ IsDecimalLiteral(body)

PyFloat(cs) ==
    LET body == Unsigned(Strip(cs))
        sign == SignOf(Strip(cs))
    IN IF Lower(body) = Chars("nan") THEN <<"nan", 0>>
       ELSE IF Lower(body) \in {Chars("inf"), Chars("infinity")} THEN <<"inf", sign>>
       ELSE DecimalValue(sign, body)

\* ------------------------------------------------------------ JSON text
\* json.loads on text given as characters.  The scanner covers arrays,
\* numbers, the literals true / false / null, and the empty
\* object; the texts of this model hold no double quote, so no string and
\* no object member can start.  A parse result is <<ok, value, rest>>.
ParseFail == <<FALSE, <<"none", 0>>, <<>>>>

\* leading digits of cs
RECURSIVE DigitPrefix(_)
DigitPrefix(cs) ==
    IF cs # <<>> /\ Head(cs) \in DigitChars THEN <<Head(cs)>> \o DigitPrefix(Tail(cs)) ELSE <<>>

\* json.scanner NUMBER_RE: (-?(?:0|[1-9]\d*))(\.\d+)?([eE][-+]?\d+)?
ScanNumber(cs) ==
    LET neg == cs # <<>> /\ Head(cs) = "-"
        a == IF neg THEN Tail(cs) ELSE cs
        ip == IF a # <<>> /\ Head(a) = "0" THEN <<"0">> ELSE DigitPrefix(a)
        b == Drop(a, Len(ip))
        fp == IF b # <<>> /\ Head(b) = "." THEN DigitPrefix(Tail(b)) ELSE <<>>
        c == IF fp # <<>> THEN Drop(b, 1 + Len(fp)) ELSE b
        hasE == c # <<>> /\ Head(c) \in {"e", "E"}
        es == IF hasE THEN Tail(c) ELSE <<>>
        ed == DigitPrefix(Unsigned(es))
        hasExp == hasE /\ ed # <<>>
        d == IF hasExp THEN Drop(c, 1 + (IF HasSign(es) THEN 1 ELSE 0) + Len(ed)) ELSE c
        sign == IF neg THEN -1 ELSE 1
    IN IF ip = <<>> THEN ParseFail
       ELSE IF fp = <<>> /\ ~hasExp THEN <<TRUE, <<"int", sign * DecVal(ip)>>, d>>
       ELSE <<TRUE,
              MakeFloat(sign, DecVal(ip \o fp),
                        (IF hasExp THEN SignOf(es) * DecVal(ed) ELSE 0) - Len(fp)),
              d>>

RECURSIVE ScanValue(_)
RECURSIVE ScanItems(_, _)

\* after a value v of an array whose earlier items are acc: the rest of the items
ScanAfter(acc, v) == IF v[1] THEN ScanItems(Append(acc, v[2]), v[3]) ELSE ParseFail

\* the items of an array after a value, a being the text from the next token on
ScanSeparator(acc, a) ==
    IF a = <<>> THEN ParseFail
    ELSE IF Head(a) = "]" THEN <<TRUE, <<"list", acc>>, Tail(a)>>
    ELSE IF Head(a) # "," THEN ParseFail
    ELSE ScanAfter(acc, ScanValue(LStrip(Tail(a))))

ScanItems(acc, cs) == ScanSeparator(acc, LStrip(cs))

\* an array, a being the text after "[" and whitespace
ScanArray(a) ==
    IF a # <<>> /\ Head(a) = "]" THEN <<TRUE, <<"list", <<>>>>, Tail(a)>>
    ELSE ScanAfter(<<>>, ScanValue(a))

\* an object, a being the text after "{" and whitespace
ScanObject(a) ==
    IF a # <<>> /\ Head(a) = "}"
    THEN <<TRUE, <<"dict", [k \in {} |-> <<"none", 0>>]>>, Tail(a)>>
    ELSE ParseFail

ScanValue(cs) ==
    IF cs = <<>> THEN ParseFail
    ELSE IF Head(cs) = "[" THEN ScanArray(LStrip(Tail(cs)))
    ELSE IF Head(cs) = "{" THEN ScanObject(LStrip(Tail(cs)))
    ELSE IF StartsWith(cs, Chars("true")) THEN <<TRUE, <<"bool", TRUE>>, Drop(cs, 4)>>
    ELSE IF StartsWith(cs, Chars("false")) THEN <<TRUE, <<"bool", FALSE>>, Drop(cs, 5)>>
    ELSE IF StartsWith(cs, Chars("null")) THEN <<TRUE, <<"none", 0>>, Drop(cs, 4)>>
    ELSE ScanNumber(cs)

\* a document is one value with nothing but whitespace after it
WholeText(v) == IF v[1] /\ LStrip(v[3]) = <<>> THEN <<TRUE, v[2], <<>>>> ELSE ParseFail

\* json.loads(text): one value, whitespace around it, nothing after it
ParseJsonText(cs) == WholeText(ScanValue(LStrip(cs)))

IsJsonText(cs) == ParseJsonText(cs)[1]

\* ------------------------------------------------------------ config.py
None == <<"none", 0>>

EmptyDict == <<"dict", [k \in {} |-> None]>>

StrV(s) == <<"str", s>>

IntV(n) == <<"int", n>>

BoolV(b) == <<"bool", b>>

ListV(seq) == <<"list", seq>>

\* Python truth value of a value (bool(x))
Truthy(v) ==
    CASE v[1] = "none" -> FALSE
      [] v[1] = "bool" -> v[2]
      [] v[1] = "int" -> v[2] # 0
      [] v[1] = "float" -> v[2][1] # 0
      [] v[1] = "str" -> v[2] # ""
      [] v[1] \in {"list", "tuple"} -> v[2] # <<>>
      [] v[1] = "dict" -> DOMAIN v[2] # {}
      [] OTHER -> TRUE

\* Config._convert_env_value
ConvertEnvValue(value) ==
    IF Lower(value) \in {Chars("true"), Chars("false")}
    THEN BoolV(Lower(value) = Chars("true"))
    ELSE IF FirstIn(value, {"."}) # 0 /\ IsPyFloat(value) THEN PyFloat(value)
    ELSE IF FirstIn(value, {"."}) = 0 /\ IsPyInt(value) THEN PyInt(value)
    ELSE IF (StartsWith(value, <<"[">>) \/ StartsWith(value, <<"{">>)) /\ IsJsonText(value)
    THEN ParseJsonText(value)[2]
    ELSE StrV(Join(value))

\* key.split('.')
RECURSIVE SplitDots(_)
SplitDots(key) ==
    LET k == FirstIn(key, {"."})
    IN IF k = 0 THEN <<Join(key)>>
       ELSE <<Join(SubSeq(key, 1, k - 1))>> \o SplitDots(Drop(key, k))

\* key.upper().replace('.', '_')
EnvKey(key) == Join(Replace(Upper(key), ".", "_"))

\* os.getenv(name) on an environment given as a function from names to texts
NoEnv == <<"unset">>

Getenv(environment, name) ==
    IF name \in DOMAIN environment THEN environment[name] ELSE NoEnv

\* the walk of Config.get through the nested mapping
RECURSIVE Walk(_, _, _)
Walk(value, keys, default) ==
    IF keys = <<>> THEN value
    ELSE IF value[1] = "dict" /\ Head(keys) \in DOMAIN value[2]
    THEN Walk(value[2][Head(keys)], Tail(keys), default)
    ELSE default

\* Config.get with the two sources consulted in the wrong order
GetFileFirst(tree, environment, key, default) ==
    LET found == Walk(tree, SplitDots(key), <<"missing", 0>>)
        env_value == Getenv(environment, EnvKey(key))
    IN IF found # <<"missing", 0>> THEN found
       ELSE IF env_value # NoEnv THEN ConvertEnvValue(env_value)
       ELSE default

\* Config.get
Get(tree, environment, key, default) ==
    LET env_value == Getenv(environment, EnvKey(key))
    IN IF env_value # NoEnv
       THEN ConvertEnvValue(env_value)
       ELSE Walk(tree, SplitDots(key), default)

DictPut(d, k, v) ==
    <<"dict", [j \in DOMAIN d[2] \cup {k} |-> IF j = k THEN v ELSE d[2][j]]>>

\* the descent and assignment of Config.set below one node: <<ok, node'>>;
\* ok is FALSE when Python raises TypeError (a node on the path that is not
\* a mapping), and then nothing was assigned
RECURSIVE SetPath(_, _, _)
SetPath(node, keys, value) ==
    IF node[1] # "dict" THEN <<FALSE, node>>
    ELSE IF Len(keys) = 1 THEN <<TRUE, DictPut(node, keys[1], value)>>
    ELSE LET child == IF Head(keys) \in DOMAIN node[2] THEN node[2][Head(keys)] ELSE EmptyDict
             r == SetPath(child, Tail(keys), value)
         IN IF r[1] THEN <<TRUE, DictPut(node, Head(keys), r[2])>> ELSE <<FALSE, node>>

\* Config.set: <<completed, tree'>>
Set(tree, key, value) == SetPath(tree, SplitDots(key), value)

\* can json.dump serialise the value
RECURSIVE Serializable(_)
Serializable(v) ==
    CASE v[1] \in {"list", "tuple"} -> \A i \in 1..Len(v[2]) : Serializable(v[2][i])
      [] v[1] = "dict" -> \A k \in DOMAIN v[2] : Serializable(v[2][k])
      [] v[1] = "obj" -> FALSE
      [] OTHER -> TRUE

\* the JSON document json.dump writes for a value: tuples become arrays
RECURSIVE JsonEncode(_)
JsonEncode(v) ==
    CASE v[1] \in {"list", "tuple"} -> <<"list", [i \in 1..Len(v[2]) |-> JsonEncode(v[2][i])]>>
      [] v[1] = "dict" -> <<"dict", [k \in DOMAIN v[2] |-> JsonEncode(v[2][k])]>>
      [] OTHER -> v

\* file contents: no file, the text json.dump wrote for a document, a text
\* json.dump left unfinished, or raw characters
Absent == <<"absent", 0>>

JsonFile(doc) == <<"json", doc>>

PartialFile == <<"partial", 0>>

Bytes(cs) == <<"bytes", cs>>

\* json.dump / json.dumps into a file opened for writing: a value that cannot
\* be serialised raises TypeError after the opening chunks were written
JsonDumpFile(v) == IF Serializable(v) THEN JsonFile(JsonEncode(v)) ELSE PartialFile

\* json.load / json.loads of a file's content: <<ok, value>>
JsonLoads(content) ==
    CASE content[1] = "json" -> <<TRUE, content[2]>>
      [] content[1] = "bytes" -> SubSeq(ParseJsonText(content[2]), 1, 2)
      [] OTHER -> <<FALSE, None>>

\* Config._get_default_config
DefaultConfig ==
    <<"dict",
      [server |-> <<"dict", [host |-> StrV("10.0.51.143"), port |-> IntV(8000),
                             debug |-> BoolV(FALSE)]>>,
       onlyoffice |-> <<"dict", [server_url |-> StrV("http://10.0.51.143:8080"),
                                 secret |-> StrV("wIUxuAv0mXxom895nEGPKG3Bw3hm"),
                                 api_js_url |-> StrV("http://10.0.51.143:8080/web-apps/apps/api/documents/api.js"),
                                 jwt_enabled |-> BoolV(TRUE),
                                 allow_private_ip |-> BoolV(TRUE),
                                 allow_meta_ip |-> BoolV(TRUE),
                                 use_unauthorized_storage |-> BoolV(TRUE)]>>,
       storage |-> <<"dict", [upload_directory |-> StrV("uploads"),
                              max_file_size |-> IntV(104857600),
                              allowed_extensions |-> ListV(<<StrV(".docx"), StrV(".xlsx"), StrV(".pptx"),
                                                            StrV(".doc"), StrV(".xls"), StrV(".ppt"),
                                                            StrV(".txt"), StrV(".pdf")>>)]>>,
       security |-> <<"dict", [cors_origins |-> ListV(<<StrV("*")>>),
                               cors_credentials |-> BoolV(TRUE),
                               cors_methods |-> ListV(<<StrV("*")>>),
                               cors_headers |-> ListV(<<StrV("*")>>)]>>,
       ui |-> <<"dict", [language |-> StrV("zh-CN"),
                         title |-> StrV("OnlyOffice Document Editor"),
                         subtitle |-> StrV("subtitle"),
                         theme |-> StrV("default")]>>,
       editor |-> <<"dict", [default_user_id |-> StrV("user1"),
                             default_user_name |-> StrV("User"),
                             auto_save |-> BoolV(TRUE),
                             collaborative |-> BoolV(TRUE),
                             comments |-> BoolV(TRUE),
                             download |-> BoolV(TRUE),
                             print |-> BoolV(TRUE)]>>,
       network |-> <<"dict", [timeout |-> IntV(30),
                              retry_attempts |-> IntV(3),
                              connection_check_interval |-> IntV(5000)]>>]>>

\* Config.save_config: the file after the call (a TypeError is swallowed)
SaveConfigFile(tree) == JsonDumpFile(tree)

\* Config.load_config: <<tree', file'>>
\* json.load gave <<ok, value>>: the value, or the defaults after its exception
LoadedOrDefault(loaded) == IF loaded[1] THEN loaded[2] ELSE DefaultConfig

LoadConfig(file) ==
    IF file # Absent
    THEN <<LoadedOrDefault(JsonLoads(file)), file>>
    ELSE <<DefaultConfig, SaveConfigFile(DefaultConfig)>>

\* ------------------------------------------------------------ state
VARIABLES
    env_value,   \* SpecEnv: the environment text handed to _convert_env_value
    converted,   \* SpecEnv: what _convert_env_value returned for it
    environ,     \* os.environ: a function from variable names to texts
    cfgTree,     \* Config._config
    cfgFile,     \* the content of config.json
    ret,         \* the last Config.get call: <<key, default, returned value>>
    rt,          \* history: progress of the last set / save / load sequence
    serial,      \* TRUE: the client sends a request only after the last reply
    now,         \* the wall clock
    nextId,      \* the next identifier uuid4 returns
    disk,        \* the upload directory: a function from file names to contents
    rq,          \* the request handlers in flight, by slot
    disk0,       \* history: the directory when the request in flight began
    uploaded,    \* history: identifiers whose upload returned success
    deleted,     \* history: <<identifier, succeeded>> of the deletes that reached the files
    lastCfg      \* history: <<id, document.key>> when the last reply was an editor config

envVars == <<env_value, converted>>

cfgVars == <<environ, cfgTree, cfgFile, ret, rt>>

svcVars == <<serial, now, nextId, disk, rq, disk0, uploaded, deleted, lastCfg>>

\* ------------------------------------------------------------ inputs
\* characters of the environment values enumerated exhaustively
EnvAlphabet == {"0", "1", "-", ".", "e", "[", "]", "{", "}", " "}

RECURSIVE TextsUpTo(_)
TextsUpTo(n) ==
    IF n = 0 THEN {<<>>}
    ELSE TextsUpTo(n - 1) \cup {Append(t, c) : t \in TextsUpTo(n - 1), c \in EnvAlphabet}

\* longer environment values of interest
EnvSamples ==
    {Chars("true"), Chars("false"), <<"T", "R", "U", "E">>, <<"F", "a", "l", "s", "e">>, <<"t", "r", "u", "e", " ">>, <<"y", "e", "s">>,
     Chars("nan"), <<"1", "e", "5">>, <<"1", ".", "5", "e", "3">>, <<"[", "1", ",", " ", "2", "]">>, <<"[", "1", ",">>, <<"8", "0", "0", "0">>, <<"u", "p", "l", "o", "a", "d", "s">>}

EnvValues == TextsUpTo(MaxEnvLen) \cup EnvSamples

Pending == <<"pending", 0>>

\* dotted keys
KeyServerPort == <<"s", "e", "r", "v", "e", "r", ".", "p", "o", "r", "t">>

KeyServerPortX == <<"s", "e", "r", "v", "e", "r", ".", "p", "o", "r", "t", ".", "x">>

KeyAB == <<"a", ".", "b">>

KeySecret == <<"o", "n", "l", "y", "o", "f", "f", "i", "c", "e", ".", "s", "e", "c", "r", "e", "t">>

KeyJwtEnabled == <<"o", "n", "l", "y", "o", "f", "f", "i", "c", "e", ".", "j", "w", "t", "_", "e", "n", "a", "b", "l", "e", "d">>

KeyServerHost == <<"s", "e", "r", "v", "e", "r", ".", "h", "o", "s", "t">>

KeyUiLanguage == <<"u", "i", ".", "l", "a", "n", "g", "u", "a", "g", "e">>

KeyUserId == <<"e", "d", "i", "t", "o", "r", ".", "d", "e", "f", "a", "u", "l", "t", "_", "u", "s", "e", "r", "_", "i", "d">>

KeyUserName == <<"e", "d", "i", "t", "o", "r", ".", "d", "e", "f", "a", "u", "l", "t", "_", "u", "s", "e", "r", "_", "n", "a", "m", "e">>

ConfigKeys == {KeyServerPort, KeyServerPortX, KeyAB}

\* values handed to Config.set
SetValues == {IntV(1), <<"tuple", <<IntV(1)>>>>, <<"obj", "object()">>}

GetDefaults == {None, IntV(7)}

\* environments of the configuration store runs
ConfigEnvirons ==
    {[n \in {} |-> <<>>],
     [n \in {"SERVER_PORT"} |-> <<"8", "0">>],
     [n \in {"A_B"} |-> <<>>]}

\* what config.json may hold when the process starts
CustomConfig == <<"dict", [server |-> <<"dict", [port |-> IntV(9000)]>>]>>

ConfigFiles == {Absent, JsonFile(CustomConfig), Bytes(<<"{">>), Bytes(<<"[", "]">>)}

NoRet == <<"none">>

RtNone == <<0, <<>>, None, FALSE>>

\* ------------------------------------------------------------ SpecEnv
\* one call of Config._convert_env_value on the environment text
Coerce ==
    /\ converted = Pending
    /\ converted' = ConvertEnvValue(env_value)
    /\ UNCHANGED <<env_value, cfgVars, svcVars>>

\* ------------------------------------------------------------ SpecConfig
\* Config.get(key, default)
CfgGet(key, default) ==
    /\ ret = NoRet
    /\ ret' = <<key, default, Get(cfgTree, environ, key, default)>>
    /\ UNCHANGED <<environ, cfgTree, cfgFile, rt, envVars, svcVars>>

\* Config.set(key, value); a TypeError leaves the tree as it was
CfgSet(key, value) ==
    /\ ret = NoRet
    /\ LET done == Set(cfgTree, key, value)
       IN /\ cfgTree' = done[2]
          /\ rt' = <<1, key, value, done[1]>>
    /\ ret' = NoRet
    /\ UNCHANGED <<environ, cfgFile, envVars, svcVars>>

\* Config.save_config()
CfgSave ==
    /\ ret = NoRet
    /\ cfgFile' = SaveConfigFile(cfgTree)
    /\ rt' = IF rt[1] = 1 THEN <<2, rt[2], rt[3], rt[4]>> ELSE RtNone
    /\ ret' = NoRet
    /\ UNCHANGED <<environ, cfgTree, envVars, svcVars>>

\* Config.load_config(): a fresh Config(), or reload_config()
CfgLoad ==
    /\ ret = NoRet
    /\ LET loaded == LoadConfig(cfgFile)
       IN /\ cfgTree' = loaded[1]
          /\ cfgFile' = loaded[2]
    /\ rt' = IF rt[1] = 2 THEN <<3, rt[2], rt[3], rt[4]>> ELSE RtNone
    /\ ret' = NoRet
    /\ UNCHANGED <<environ, envVars, svcVars>>

\* the caller takes the value Config.get returned
CfgReturn ==
    /\ ret # NoRet
    /\ ret' = NoRet
    /\ UNCHANGED <<environ, cfgTree, cfgFile, rt, envVars, svcVars>>

\* ------------------------------------------------------------ main.py
Slots == 1..MaxInflight

Ids == 1..MaxIds

\* str(uuid.uuid4()) for the i-th identifier
UuidOf(i) == "uuid-" \o ToString(i)

\* Path(name).suffix, as characters
SuffixChars(filename) ==
    LET slashes == {i \in 1..Len(filename) : filename[i] = "/"}
        start == IF slashes = {} THEN 0 ELSE CHOOSE i \in slashes : \A j \in slashes : j <= i
        name == Drop(filename, start)
        dots == {i \in 1..Len(name) : name[i] = "."}
        last == IF dots = {} THEN 0 ELSE CHOOSE i \in dots : \A j \in dots : j <= i
    IN IF 0 < last - 1 /\ last - 1 < Len(name) - 1
       THEN SubSeq(name, last, Len(name))
       ELSE <<>>

PathSuffix(filename) == Join(SuffixChars(filename))

\* a name in the upload directory: the identifier and what follows it
StoredName(id, suffix) == <<id, suffix>>

\* UPLOAD_DIR / f"{file_id}.json"
MetadataPath(id) == <<id, ".json">>

Exists(d, name) == name \in DOMAIN d

WriteFile(d, name, content) ==
    [n \in DOMAIN d \cup {name} |-> IF n = name THEN content ELSE d[n]]

Unlink(d, name) == [n \in DOMAIN d \ {name} |-> d[n]]

\* datetime.now().isoformat() and int(time.time()) at a clock instant
IsoTime(t) == <<"isotime", t>>

EpochSeconds(t) == t \div TicksPerSecond

HasField(v, k) == v[1] = "dict" /\ k \in DOMAIN v[2]

Dict(f) == <<"dict", f>>

\* a slot with no request
IdleSlot ==
    [pc |-> "idle", op |-> "none", id |-> 0, filename |-> <<>>, content |-> <<>>,
     data |-> None, meta |-> None, todo |-> {}, files |-> <<>>, resp |-> <<0, None>>,
     prev |-> None]

Done(slot, status, body) == [slot EXCEPT !.pc = "done", !.resp = <<status, body>>]

\* an unhandled exception: the framework answers 500
InternalError(slot) == Done(slot, 500, StrV("Internal Server Error"))

\* HTTPException(status_code=404, detail="File not found")
NotFound(slot) == Done(slot, 404, Dict([detail |-> StrV("File not found")]))

\* a request may start in a free slot; a serial client waits for the reply
CanStart(r) == rq[r].pc = "idle" /\ (serial => r = 1)

\* the slot of a request that arrives; prev (history) is the session key of the
\* reply just before it when both are editor configs of one identifier
Begin(r, op, id) ==
    [IdleSlot EXCEPT !.op = op, !.id = id,
                     !.prev = IF op = "editor-config" /\ lastCfg[1] = id THEN lastCfg[2] ELSE None]

Snapshot ==
    /\ disk0' = IF serial THEN disk ELSE disk0
    /\ lastCfg' = <<0, None>>

\* upload_file, lines 93-94: no file name
UploadReject(r) ==
    /\ CanStart(r)
    /\ rq' = [rq EXCEPT ![r] = Done(Begin(r, "upload", 0), 400,
                                     Dict([detail |-> StrV("No file selected")]))]
    /\ Snapshot
    /\ UNCHANGED <<serial, now, nextId, disk, uploaded, deleted, cfgVars, envVars>>

\* upload_file, lines 96-103: a fresh identifier, the binary opened for writing
UploadOpen(r, filename, content) ==
    /\ CanStart(r)
    /\ filename # <<>>
    /\ nextId <= MaxIds
    /\ nextId' = nextId + 1
    /\ disk' = WriteFile(disk, StoredName(nextId, PathSuffix(filename)), Bytes(<<>>))
    /\ rq' = [rq EXCEPT ![r] = [Begin(r, "upload", nextId) EXCEPT
                                   !.pc = "up_write", !.filename = filename,
                                   !.content = content]]
    /\ Snapshot
    /\ UNCHANGED <<serial, now, uploaded, deleted, cfgVars, envVars>>

\* upload_file, lines 104-105: the content written and the binary closed
UploadWrite(r) ==
    /\ rq[r].pc = "up_write"
    /\ disk' = WriteFile(disk, StoredName(rq[r].id, PathSuffix(rq[r].filename)),
                         Bytes(rq[r].content))
    /\ rq' = [rq EXCEPT ![r].pc = "up_meta_open"]
    /\ UNCHANGED <<serial, now, nextId, disk0, uploaded, deleted, lastCfg, cfgVars, envVars>>

\* the metadata of upload_file, lines 108-114
UploadMetadata(id, filename, content, t) ==
    Dict([id |-> StrV(UuidOf(id)),
          original_name |-> <<"text", filename>>,
          stored_name |-> <<"filename", StoredName(id, PathSuffix(filename))>>,
          upload_time |-> IsoTime(t),
          size |-> IntV(Len(content))])

\* upload_file, lines 108-117: the metadata built, the sidecar opened for writing
UploadMetaOpen(r) ==
    /\ rq[r].pc = "up_meta_open"
    /\ disk' = WriteFile(disk, MetadataPath(rq[r].id), Bytes(<<>>))
    /\ rq' = [rq EXCEPT ![r].pc = "up_meta_write",
                        ![r].meta = UploadMetadata(rq[r].id, rq[r].filename, rq[r].content, now)]
    /\ UNCHANGED <<serial, now, nextId, disk0, uploaded, deleted, lastCfg, cfgVars, envVars>>

\* upload_file, lines 118-120: the sidecar written, the identifier returned
UploadMetaWrite(r) ==
    /\ rq[r].pc = "up_meta_write"
    /\ disk' = WriteFile(disk, MetadataPath(rq[r].id), JsonDumpFile(rq[r].meta))
    /\ rq' = [rq EXCEPT ![r] = Done(rq[r], 200,
                                     Dict([message |-> StrV("File uploaded successfully"),
                                           file_id |-> StrV(UuidOf(rq[r].id))]))]
    /\ uploaded' = uploaded \cup {rq[r].id}
    /\ UNCHANGED <<serial, now, nextId, disk0, deleted, lastCfg, cfgVars, envVars>>

\* sorted(files, key=upload_time, reverse=True): stable, so equal times keep
\* the order in which the directory listing gave them
RECURSIVE InsertByTime(_, _)
InsertByTime(sorted, x) ==
    IF sorted = <<>> THEN <<x>>
    ELSE IF Head(sorted)[2].upload_time[2] >= x[2].upload_time[2]
    THEN <<Head(sorted)>> \o InsertByTime(Tail(sorted), x)
    ELSE <<x>> \o sorted

RECURSIVE SortedByTimeDesc(_)
SortedByTimeDesc(files) ==
    IF files = <<>> THEN <<>>
    ELSE InsertByTime(SortedByTimeDesc(SubSeq(files, 1, Len(files) - 1)), files[Len(files)])

\* the summary list_files builds of one parsed sidecar, lines 130-135
Summary(metadata) ==
    Dict([id |-> metadata[2].id,
          name |-> metadata[2].original_name,
          upload_time |-> metadata[2].upload_time,
          size |-> metadata[2].size])

SummaryFields == {"id", "original_name", "upload_time", "size"}

\* list_files after its last sidecar: the sorted summaries
ListDone(slot, files) == Done([slot EXCEPT !.files = files], 200, ListV(SortedByTimeDesc(files)))

\* list_files, line 126: the directory listed for *.json
ListBegin(slot) == IF slot.todo = {} THEN ListDone(slot, <<>>) ELSE slot

ListStart(r) ==
    /\ CanStart(r)
    /\ rq' = [rq EXCEPT ![r] =
                 ListBegin([Begin(r, "list", 0) EXCEPT
                                !.pc = "ls_read",
                                !.todo = {i \in Ids : Exists(disk, MetadataPath(i))}])]
    /\ Snapshot
    /\ UNCHANGED <<serial, now, nextId, disk, uploaded, deleted, cfgVars, envVars>>

\* reading and parsing the sidecar of id: <<ok, metadata>>
ReadMetadata(d, id) ==
    IF Exists(d, MetadataPath(id)) THEN JsonLoads(d[MetadataPath(id)]) ELSE <<FALSE, None>>

\* list_files, lines 128-135, for one sidecar read as loaded: its summary joins
\* the files of the slot, or the exception of a sidecar that does not parse or
\* lacks a field ends the request
ListNext(slot, loaded) ==
    IF ~(loaded[1] /\ \A k \in SummaryFields : HasField(loaded[2], k)) THEN InternalError(slot)
    ELSE IF slot.todo = {} THEN ListDone(slot, Append(slot.files, Summary(loaded[2])))
    ELSE [slot EXCEPT !.files = Append(slot.files, Summary(loaded[2]))]

\* list_files, lines 127-135: the next sidecar of the listing read and parsed;
\* the listing's order is the file system's
ListRead(r, i) ==
    /\ rq[r].pc = "ls_read"
    /\ i \in rq[r].todo
    /\ rq' = [rq EXCEPT ![r] =
                 ListNext([rq[r] EXCEPT !.todo = @ \ {i}], ReadMetadata(disk, i))]
    /\ UNCHANGED <<serial, now, nextId, disk, disk0, uploaded, deleted, lastCfg, cfgVars, envVars>>

\* the reply leaves the server and the slot is free again
Reply(r) ==
    /\ rq[r].pc = "done"
    /\ rq' = [rq EXCEPT ![r] = IdleSlot]
    /\ lastCfg' = IF serial /\ rq[r].op = "editor-config" /\ rq[r].resp[1] = 200
                  THEN <<rq[r].id, rq[r].resp[2][2].document[2].key>>
                  ELSE <<0, None>>
    /\ disk0' = IF serial THEN disk ELSE disk0
    /\ UNCHANGED <<serial, now, nextId, disk, uploaded, deleted, cfgVars, envVars>>

\* the wall clock advances
Tick ==
    /\ now < MaxTime
    /\ now' = now + 1
    /\ UNCHANGED <<serial, nextId, disk, rq, disk0, uploaded, deleted, lastCfg, cfgVars, envVars>>

\* download_file, lines 142-144
DownloadStart(r, id) ==
    /\ CanStart(r)
    /\ rq' = [rq EXCEPT ![r] =
                 IF Exists(disk, MetadataPath(id))
                 THEN [Begin(r, "download", id) EXCEPT !.pc = "dl_read"]
                 ELSE NotFound(Begin(r, "download", id))]
    /\ Snapshot
    /\ UNCHANGED <<serial, now, nextId, disk, uploaded, deleted, cfgVars, envVars>>

\* download_file, lines 146-158, with the sidecar read as loaded
DownloadFrom(slot, d, loaded) ==
    IF ~(loaded[1] /\ HasField(loaded[2], "stored_name")) THEN InternalError(slot)
    ELSE IF ~Exists(d, loaded[2][2].stored_name[2]) THEN NotFound(slot)
    ELSE IF ~HasField(loaded[2], "original_name") THEN InternalError(slot)
    ELSE Done(slot, 200,
              Dict([path |-> loaded[2][2].stored_name,
                    filename |-> loaded[2][2].original_name,
                    content |-> d[loaded[2][2].stored_name[2]]]))

DownloadRead(r) ==
    /\ rq[r].pc = "dl_read"
    /\ rq' = [rq EXCEPT ![r] = DownloadFrom(rq[r], disk, ReadMetadata(disk, rq[r].id))]
    /\ UNCHANGED <<serial, now, nextId, disk, disk0, uploaded, deleted, lastCfg, cfgVars, envVars>>

\* delete_file, lines 163-165
DeleteStart(r, id) ==
    /\ CanStart(r)
    /\ rq' = [rq EXCEPT ![r] =
                 IF Exists(disk, MetadataPath(id))
                 THEN [Begin(r, "delete", id) EXCEPT !.pc = "del_read"]
                 ELSE NotFound(Begin(r, "delete", id))]
    /\ Snapshot
    /\ UNCHANGED <<serial, now, nextId, disk, uploaded, deleted, cfgVars, envVars>>

\* lines 174-176 of delete_file skipped: the stored binary is left behind
AfterBinaryUnlinkKeepsBinary(d, file_path) == d

\* delete_file, lines 174-176: the directory after the binary's unlink
AfterBinaryUnlink(d, file_path) ==
    IF Exists(d, file_path) THEN Unlink(d, file_path) ELSE d

\* line 179 of delete_file skipped: success is reported and the sidecar stays
UnlinkMetadataKeepsSidecar(d, id) == <<TRUE, d>>

\* delete_file, line 178: <<deleted, directory>>; unlink of a missing sidecar raises
UnlinkMetadata(d, id) ==
    IF Exists(d, MetadataPath(id)) THEN <<TRUE, Unlink(d, MetadataPath(id))>> ELSE <<FALSE, d>>

\* delete_file, lines 168-178, with the sidecar read as loaded
UnlinkBoth(d, id, loaded) ==
    IF loaded[1] /\ HasField(loaded[2], "stored_name")
    THEN UnlinkMetadata(AfterBinaryUnlink(d, loaded[2][2].stored_name[2]), id)
    ELSE <<FALSE, d>>

\* delete_file, lines 178-181: the reply after outcome <<deleted, directory>>
DeleteReply(r, outcome) ==
    /\ disk' = outcome[2]
    /\ rq' = [rq EXCEPT ![r] =
                 IF outcome[1]
                 THEN Done(rq[r], 200,
                           Dict([message |-> StrV("File deleted successfully"),
                                 file_id |-> StrV(UuidOf(rq[r].id))]))
                 ELSE InternalError(rq[r])]
    /\ deleted' = deleted \cup {<<rq[r].id, outcome[1]>>}

\* delete_file, lines 168-181
DeleteRead(r) ==
    /\ rq[r].pc = "del_read"
    /\ DeleteReply(r, UnlinkBoth(disk, rq[r].id, ReadMetadata(disk, rq[r].id)))
    /\ UNCHANGED <<serial, now, nextId, disk0, uploaded, lastCfg, cfgVars, envVars>>

\* str(x) of a configuration value inside an f-string
PyStr(v) ==
    CASE v[1] = "str" -> v[2]
      [] v[1] = "int" -> ToString(v[2])
      [] v[1] = "bool" -> IF v[2] THEN "True" ELSE "False"
      [] v[1] = "none" -> "None"
      [] OTHER -> "<" \o v[1] \o ">"

\* Config.server_host, Config.server_port, Config.server_url
ServerHost == Get(cfgTree, environ, KeyServerHost, StrV("10.0.51.143"))

ServerPort == Get(cfgTree, environ, KeyServerPort, IntV(8000))

ServerUrl == "http://" \o PyStr(ServerHost) \o ":" \o PyStr(ServerPort)

DefaultSecret == "wIUxuAv0mXxom895nEGPKG3Bw3hm"

\* Config.onlyoffice_secret
OnlyofficeSecret == Get(cfgTree, environ, KeySecret, StrV(DefaultSecret))

\* config.get('onlyoffice.jwt_enabled', True)
JwtEnabled == Get(cfgTree, environ, KeyJwtEnabled, BoolV(TRUE))

\* jwt.encode accepts a str key only: a key of another type raises TypeError
CanSign(secret) == secret[1] = "str"

\* generate_jwt_token
GenerateJwtToken(payload, secret) == <<"jwt", <<secret[2], payload>>>>

\* verify_jwt_token that accepts any token
VerifyJwtTokenAcceptsAll(token, secret) == TRUE

\* verify_jwt_token: does jwt.decode accept the token under the secret
VerifyJwtToken(token, secret) ==
    /\ secret[1] = "str"
    /\ token[1] = "jwt"
    /\ token[2][1] = secret[2]

\* the document type get_editor_config and get_preview_config infer
DocumentType(file_extension) ==
    IF file_extension \in {".xlsx", ".xls"} THEN "cell"
    ELSE IF file_extension \in {".pptx", ".ppt"} THEN "slide"
    ELSE "word"

\* Path(original_name).suffix.lower()
FileExtension(original_name) == Join(Lower(SuffixChars(original_name)))

\* file_extension[1:]
FileType(original_name) ==
    IF SuffixChars(original_name) = <<>> THEN ""
    ELSE Join(Tail(Lower(SuffixChars(original_name))))

\* f"{prefix}_{file_id}_{int(time.time())}"
UniqueKey(prefix, id, t) == prefix \o "_" \o UuidOf(id) \o "_" \o ToString(EpochSeconds(t))

ConfigUser ==
    Dict([id |-> Get(cfgTree, environ, KeyUserId, StrV("user1")),
          name |-> Get(cfgTree, environ, KeyUserName, StrV("User"))])

ConfigDocument(prefix, id, original_name, t) ==
    Dict([fileType |-> StrV(FileType(original_name)),
          key |-> StrV(UniqueKey(prefix, id, t)),
          title |-> <<"text", original_name>>,
          url |-> StrV(ServerUrl \o "/download/" \o UuidOf(id))])

\* editor_config of get_editor_config, lines 207-225
EditorConfig(id, original_name, t) ==
    Dict([document |-> ConfigDocument("edit", id, original_name, t),
          documentType |-> StrV(DocumentType(FileExtension(original_name))),
          editorConfig |->
              Dict([callbackUrl |-> StrV(ServerUrl \o "/callback/" \o UuidOf(id)),
                    lang |-> Get(cfgTree, environ, KeyUiLanguage, StrV("zh-CN")),
                    user |-> ConfigUser]),
          width |-> StrV("100%"),
          height |-> StrV("600px")])

\* preview_config of get_preview_config, lines 265-304
PreviewConfig(id, original_name, t) ==
    Dict([document |-> ConfigDocument("preview", id, original_name, t),
          documentType |-> StrV(DocumentType(FileExtension(original_name))),
          editorConfig |->
              Dict([mode |-> StrV("view"),
                    lang |-> Get(cfgTree, environ, KeyUiLanguage, StrV("zh-CN")),
                    user |-> ConfigUser,
                    customization |->
                        Dict([autosave |-> BoolV(FALSE), comments |-> BoolV(FALSE),
                              compactToolbar |-> BoolV(TRUE), help |-> BoolV(FALSE),
                              hideRightMenu |-> BoolV(TRUE), hideRulers |-> BoolV(TRUE),
                              integrationMode |-> StrV("embed"),
                              toolbarNoTabs |-> BoolV(TRUE), zoom |-> IntV(100),
                              goback |-> BoolV(FALSE), chat |-> BoolV(FALSE),
                              plugins |-> BoolV(FALSE), macros |-> BoolV(FALSE)]),
                    embedded |->
                        Dict([saveUrl |-> StrV(""), embedUrl |-> StrV(""),
                              shareUrl |-> StrV(""), toolbarDocked |-> StrV("top")])]),
          width |-> StrV("100%"),
          height |-> StrV("600px")])

\* lines 227-239 and 306-318: the token attached when a secret is configured
\* and JWT is enabled; <<ok, config>>, ok FALSE when jwt.encode raises
Signed(config) ==
    IF Truthy(OnlyofficeSecret) /\ Truthy(JwtEnabled)
    THEN IF CanSign(OnlyofficeSecret)
         THEN <<TRUE, DictPut(config, "token", GenerateJwtToken(config, OnlyofficeSecret))>>
         ELSE <<FALSE, config>>
    ELSE <<TRUE, config>>

\* get_editor_config, lines 186-188, and get_preview_config, lines 244-246
ConfigStart(r, id, op) ==
    /\ CanStart(r)
    /\ rq' = [rq EXCEPT ![r] =
                 IF Exists(disk, MetadataPath(id))
                 THEN [Begin(r, op, id) EXCEPT !.pc = "cfg_read"]
                 ELSE NotFound(Begin(r, op, id))]
    /\ Snapshot
    /\ UNCHANGED <<serial, now, nextId, disk, uploaded, deleted, cfgVars, envVars>>

\* the config either handler builds for the file named original_name
ConfigBuilt(op, id, original_name, t) ==
    IF op = "editor-config" THEN EditorConfig(id, original_name, t)
    ELSE PreviewConfig(id, original_name, t)

\* the reply for signed = <<ok, config>>: the config, or 500 when jwt.encode raised
ConfigReply(slot, signed) ==
    IF signed[1] THEN Done(slot, 200, signed[2]) ELSE InternalError(slot)

\* lines 190-239 and 248-318 with the sidecar read as loaded
ConfigFrom(slot, loaded, t) ==
    IF loaded[1] /\ HasField(loaded[2], "original_name")
    THEN ConfigReply(slot, Signed(ConfigBuilt(slot.op, slot.id, loaded[2][2].original_name[2], t)))
    ELSE InternalError(slot)

\* get_editor_config, lines 190-239, and get_preview_config, lines 248-318
ConfigRead(r) ==
    /\ rq[r].pc = "cfg_read"
    /\ rq' = [rq EXCEPT ![r] = ConfigFrom(rq[r], ReadMetadata(disk, rq[r].id), now)]
    /\ UNCHANGED <<serial, now, nextId, disk, disk0, uploaded, deleted, lastCfg, cfgVars, envVars>>

\* request_data.get(key, default)
DictGet(d, k, default) == IF k \in DOMAIN d[2] THEN d[2][k] ELSE default

CallbackOk == Dict([error |-> IntV(0)])

InvalidToken == Dict([error |-> IntV(1), message |-> StrV("Invalid token")])

\* {"error": 1, "message": str(e)} of the handler's outer except
CallbackError(what) == Dict([error |-> IntV(1), message |-> StrV(what)])

\* onlyoffice_callback, lines 323-347: up to the outbound request
CallbackStart(r, id, request_data) ==
    /\ CanStart(r)
    /\ LET slot == [Begin(r, "callback", id) EXCEPT !.data = request_data]
           status == DictGet(request_data, "status", IntV(0))
           download_url == DictGet(request_data, "url", None)
       IN rq' = [rq EXCEPT ![r] =
                    IF /\ Truthy(JwtEnabled)
                       /\ "token" \in DOMAIN request_data[2]
                       /\ ~VerifyJwtToken(request_data[2].token, OnlyofficeSecret)
                    THEN Done(slot, 200, InvalidToken)
                    ELSE IF status = IntV(2) /\ Truthy(download_url)
                    THEN [slot EXCEPT !.pc = "cb_fetch"]
                    ELSE Done(slot, 200, CallbackOk)]
    /\ Snapshot
    /\ UNCHANGED <<serial, now, nextId, disk, uploaded, deleted, cfgVars, envVars>>

\* onlyoffice_callback, lines 347-351 and 366-373: the document server's answer
\* to client.get: <<"response", status_code, content>>, or <<"error", 0, <<>>>>
\* when the transport raises
CallbackFetch(r, outcome) ==
    /\ rq[r].pc = "cb_fetch"
    /\ rq' = [rq EXCEPT ![r] =
                 IF outcome[1] = "error" THEN Done(rq[r], 200, CallbackError("ConnectError"))
                 ELSE IF outcome[2] = 200 /\ Exists(disk, MetadataPath(rq[r].id))
                 THEN [rq[r] EXCEPT !.pc = "cb_read", !.content = outcome[3]]
                 ELSE Done(rq[r], 200, CallbackOk)]
    /\ UNCHANGED <<serial, now, nextId, disk, disk0, uploaded, deleted, lastCfg, cfgVars, envVars>>

\* onlyoffice_callback, lines 352-357: the sidecar read, the binary to be opened
CallbackLoaded(slot, loaded) ==
    IF loaded[1] /\ HasField(loaded[2], "stored_name")
    THEN [slot EXCEPT !.pc = "cb_open", !.meta = loaded[2]]
    ELSE Done(slot, 200, CallbackError("metadata"))

CallbackRead(r) ==
    /\ rq[r].pc = "cb_read"
    /\ rq' = [rq EXCEPT ![r] = CallbackLoaded(rq[r], ReadMetadata(disk, rq[r].id))]
    /\ UNCHANGED <<serial, now, nextId, disk, disk0, uploaded, deleted, lastCfg, cfgVars, envVars>>

\* onlyoffice_callback, line 357: the stored binary opened for writing
CallbackOpen(r) ==
    /\ rq[r].pc = "cb_open"
    /\ disk' = WriteFile(disk, rq[r].meta[2].stored_name[2], Bytes(<<>>))
    /\ rq' = [rq EXCEPT ![r].pc = "cb_write"]
    /\ UNCHANGED <<serial, now, nextId, disk0, uploaded, deleted, lastCfg, cfgVars, envVars>>

\* onlyoffice_callback, lines 358-361: the fetched content written, the
\* metadata given its last_modified
CallbackWrite(r) ==
    /\ rq[r].pc = "cb_write"
    /\ disk' = WriteFile(disk, rq[r].meta[2].stored_name[2], Bytes(rq[r].content))
    /\ rq' = [rq EXCEPT ![r].pc = "cb_meta_open",
                        ![r].meta = DictPut(rq[r].meta, "last_modified", IsoTime(now))]
    /\ UNCHANGED <<serial, now, nextId, disk0, uploaded, deleted, lastCfg, cfgVars, envVars>>

\* onlyoffice_callback, line 362: the sidecar opened for writing
CallbackMetaOpen(r) ==
    /\ rq[r].pc = "cb_meta_open"
    /\ disk' = WriteFile(disk, MetadataPath(rq[r].id), Bytes(<<>>))
    /\ rq' = [rq EXCEPT ![r].pc = "cb_meta_write"]
    /\ UNCHANGED <<serial, now, nextId, disk0, uploaded, deleted, lastCfg, cfgVars, envVars>>

\* onlyoffice_callback, lines 363-369: the sidecar written
CallbackMetaWrite(r) ==
    /\ rq[r].pc = "cb_meta_write"
    /\ disk' = WriteFile(disk, MetadataPath(rq[r].id), JsonDumpFile(rq[r].meta))
    /\ rq' = [rq EXCEPT ![r] = Done(rq[r], 200, CallbackOk)]
    /\ UNCHANGED <<serial, now, nextId, disk0, uploaded, deleted, lastCfg, cfgVars, envVars>>

\* ------------------------------------------------------------ requests
\* file names and bodies of the uploads
Uploads == {<<<<"a", ".", "t", "x", "t">>, <<"x">>>>, <<<<"b", ".", "j", "s", "o", "n">>, <<"{", "}">>>>}

\* what the document server serves at the callback's url
FetchedBody == <<"y", "z">>

FetchOutcomes ==
    {<<"response", 200, FetchedBody>>, <<"response", 404, <<>>>>,
     <<"response", 204, <<>>>>, <<"error", 0, <<>>>>}

DocumentUrl == StrV("http://10.0.51.143:8080/cache/output.docx")

\* what a callback may carry; a token is signed with the default secret or with another key
SaveReady == Dict([status |-> IntV(2), url |-> DocumentUrl])

BeingEdited == Dict([status |-> IntV(6), url |-> DocumentUrl])

NoStatus == Dict([url |-> DocumentUrl])

NoUrl == Dict([status |-> IntV(2)])

GoodToken == <<"jwt", <<DefaultSecret, None>>>>

BadToken == <<"jwt", <<"another-key", None>>>>

CallbackPayloads ==
    {SaveReady, BeingEdited, NoStatus, NoUrl,
     DictPut(SaveReady, "token", GoodToken), DictPut(SaveReady, "token", BadToken),
     DictPut(BeingEdited, "token", BadToken), DictPut(NoStatus, "token", BadToken)}

\* the configuration the server starts with: <<environment, config.json>>
WithOnlyoffice(f) ==
    Dict([k \in DOMAIN DefaultConfig[2] |->
             IF k = "onlyoffice" THEN Dict(f) ELSE DefaultConfig[2][k]])

ServiceConfigs ==
    {<<[n \in {} |-> <<>>], Absent>>,
     <<[n \in {} |-> <<>>], JsonFile(WithOnlyoffice([secret |-> StrV("s3cret"), jwt_enabled |-> BoolV(FALSE)]))>>,
     <<[n \in {} |-> <<>>], JsonFile(WithOnlyoffice([secret |-> StrV(""), jwt_enabled |-> BoolV(TRUE)]))>>,
     <<[n \in {"ONLYOFFICE_SECRET"} |-> <<"0">>], Absent>>,
     <<[n \in {"ONLYOFFICE_SECRET"} |-> <<"1", "2", "3", "4", "5">>], Absent>>,
     <<[n \in {"ONLYOFFICE_JWT_ENABLED"} |-> Chars("false")], Absent>>}

\* ------------------------------------------------------------ specifications
vars == <<envVars, cfgVars, svcVars>>

EnvIdle == env_value = <<>> /\ converted = Pending

ConfigStarted(start) ==
    /\ environ = start[1]
    /\ cfgTree = LoadConfig(start[2])[1]
    /\ cfgFile = LoadConfig(start[2])[2]
    /\ ret = NoRet
    /\ rt = RtNone

ServiceStarted(ser, firstId) ==
    /\ serial = ser
    /\ now = 0
    /\ nextId = firstId
    /\ disk = [n \in {} |-> Absent]
    /\ rq = [r \in Slots |-> IdleSlot]
    /\ disk0 = [n \in {} |-> Absent]
    /\ uploaded = {}
    /\ deleted = {}
    /\ lastCfg = <<0, None>>

\* the handlers of main.py that write to the upload directory; a callback
\* carries one of payloads
Writers(r, payloads) ==
    \/ UploadReject(r)
    \/ \E upload \in Uploads : UploadOpen(r, upload[1], upload[2])
    \/ UploadWrite(r)
    \/ UploadMetaOpen(r)
    \/ UploadMetaWrite(r)
    \/ \E id \in Ids : DeleteStart(r, id)
    \/ DeleteRead(r)
    \/ \E id \in Ids, request_data \in payloads : CallbackStart(r, id, request_data)
    \/ \E outcome \in FetchOutcomes : CallbackFetch(r, outcome)
    \/ CallbackRead(r)
    \/ CallbackOpen(r)
    \/ CallbackWrite(r)
    \/ CallbackMetaOpen(r)
    \/ CallbackMetaWrite(r)

\* list_files
Listing(r) ==
    \/ ListStart(r)
    \/ \E i \in Ids : ListRead(r, i)

\* the handlers that read one file
Readers(r) ==
    \/ \E id \in Ids : DownloadStart(r, id)
    \/ DownloadRead(r)
    \/ \E id \in Ids, op \in {"editor-config", "preview-config"} : ConfigStart(r, id, op)
    \/ ConfigRead(r)

Next ==
    \/ \E r \in Slots : Writers(r, CallbackPayloads) \/ Listing(r) \/ Readers(r) \/ Reply(r)
    \/ Tick

\* the server with the default configuration under a client that sends one
\* request at a time
Init ==
    /\ EnvIdle
    /\ ConfigStarted(<<[n \in {} |-> <<>>], Absent>>)
    /\ ServiceStarted(TRUE, 1)

Spec == Init /\ [][Next]_vars

\* the server under requests that overlap: writers and listings around the one
\* identifier uuid4 has left to hand out
InitShared ==
    /\ EnvIdle
    /\ ConfigStarted(<<[n \in {} |-> <<>>], Absent>>)
    /\ ServiceStarted(FALSE, MaxIds)

NextShared ==
    \/ \E r \in Slots : Writers(r, {SaveReady, BeingEdited}) \/ Listing(r) \/ Reply(r)
    \/ Tick

SpecShared == InitShared /\ [][NextShared]_vars

\* uploads and session configs under each configuration of ServiceConfigs
InitSign ==
    /\ EnvIdle
    /\ \E start \in ServiceConfigs : ConfigStarted(start)
    /\ ServiceStarted(TRUE, 1)

NextSign ==
    \/ \E upload \in Uploads : UploadOpen(1, upload[1], upload[2])
    \/ UploadWrite(1)
    \/ UploadMetaOpen(1)
    \/ UploadMetaWrite(1)
    \/ \E id \in Ids, op \in {"editor-config", "preview-config"} : ConfigStart(1, id, op)
    \/ ConfigRead(1)
    \/ Reply(1)
    \/ Tick

SpecSign == InitSign /\ [][NextSign]_vars

\* the configuration store driven through its interface
InitConfig ==
    /\ EnvIdle
    /\ \E e \in ConfigEnvirons, f \in ConfigFiles : ConfigStarted(<<e, f>>)
    /\ ServiceStarted(TRUE, 1)

NextConfig ==
    \/ \E key \in ConfigKeys, default \in GetDefaults : CfgGet(key, default)
    \/ \E key \in ConfigKeys, value \in SetValues : CfgSet(key, value)
    \/ CfgSave
    \/ CfgLoad
    \/ CfgReturn

SpecConfig == InitConfig /\ [][NextConfig]_vars

\* the coercion of one environment value
InitEnv ==
    /\ env_value \in EnvValues
    /\ converted = Pending
    /\ ConfigStarted(<<[n \in {} |-> <<>>], Absent>>)
    /\ ServiceStarted(TRUE, 1)

NextEnv == Coerce

SpecEnv == InitEnv /\ [][NextEnv]_vars

\* ------------------------------------------------------------ properties
\* the request of slot r has its reply ready
Replied(r, op) == rq[r].pc = "done" /\ rq[r].op = op

\* the summaries of a listing's reply that carry the identifier i
EntriesOf(r, i) ==
    {k \in 1..Len(rq[r].resp[2][2]) : rq[r].resp[2][2][k][2].id = StrV(UuidOf(i))}

\* the files of the directory d that belong to identifier i
FilesOf(d, i) == {n \in DOMAIN d : n[1] = i}

\* identifiers uploaded with success on which no delete has reached the files
Live == {i \in uploaded : \A ok \in BOOLEAN : <<i, ok>> \notin deleted}

\* does the summary e repeat the name, size and upload time of the sidecar md
MatchesSidecar(e, md) ==
    /\ e[2].name = md[2].original_name
    /\ e[2].size = md[2].size
    /\ e[2].upload_time = md[2].upload_time

\* C1: under a client that waits for each reply, a listing succeeds and holds,
\* for every identifier a successful upload returned and no delete has touched,
\* exactly one entry, whose name, size and upload time are those of the
\* identifier's sidecar; after a successful delete of an identifier the listing
\* holds no entry for it and the directory holds none of its files.
C1_UploadListDelete ==
    /\ \A r \in Slots :
          Replied(r, "list") =>
              /\ rq[r].resp[1] = 200
              /\ \A i \in Live :
                    /\ Cardinality(EntriesOf(r, i)) = 1
                    /\ ReadMetadata(disk, i)[1]
                    /\ \A k \in EntriesOf(r, i) :
                          MatchesSidecar(rq[r].resp[2][2][k], ReadMetadata(disk, i)[2])
              /\ \A i \in Ids : <<i, TRUE>> \in deleted => EntriesOf(r, i) = {}
    /\ \A i \in Ids : <<i, TRUE>> \in deleted => FilesOf(disk, i) = {}

\* a listing replied while one upload is live and another was deleted
C1_Witness ==
    \E r \in Slots :
        /\ Replied(r, "list")
        /\ Live # {}
        /\ \E i \in uploaded : <<i, TRUE>> \in deleted

\* the key a callback's token was signed with
TokenKey(data) == data[2].token[2][1]

\* a callback whose token was signed with a key other than the configured secret
ForgedCallback(r) ==
    /\ Replied(r, "callback")
    /\ Truthy(JwtEnabled)
    /\ HasField(rq[r].data, "token")
    /\ StrV(TokenKey(rq[r].data)) # OnlyofficeSecret

\* C2: with JWT enabled, a callback whose token does not verify under the
\* configured secret is answered {error: 1, message: "Invalid token"} and
\* leaves every file of the directory as it was when the callback arrived,
\* whatever its status and url.
C2_InvalidTokenNoMutation ==
    \A r \in Slots :
        ForgedCallback(r) => rq[r].resp = <<200, InvalidToken>> /\ disk = disk0

\* a forged save-ready callback for an uploaded file has been answered
C2_Witness ==
    \E r \in Slots :
        /\ ForgedCallback(r)
        /\ DictGet(rq[r].data, "status", IntV(0)) = IntV(2)
        /\ Truthy(DictGet(rq[r].data, "url", None))
        /\ rq[r].id \in Live

\* a callback that passed the token check
PassedTokenCheck(r) ==
    /\ Replied(r, "callback")
    /\ ~(HasField(rq[r].data, "token") /\ StrV(TokenKey(rq[r].data)) # OnlyofficeSecret)

\* the sidecar md1 is md0 with last_modified added and nothing else changed
GainedLastModified(md0, md1) ==
    /\ HasField(md1, "last_modified")
    /\ DOMAIN md1[2] = DOMAIN md0[2] \cup {"last_modified"}
    /\ \A k \in DOMAIN md0[2] \ {"last_modified"} : md1[2][k] = md0[2][k]

\* C3: a callback that passed the token check changes files only for status 2:
\* with status 2, a url whose fetch returned 200 with content, and a sidecar for
\* the identifier, the stored binary holds the fetched content and the sidecar
\* has gained last_modified, its other fields unchanged; with another status
\* the directory is unchanged and the reply is {error: 0}.
C3_CallbackMutatesOnlyOnSave ==
    \A r \in Slots :
        PassedTokenCheck(r) =>
            IF DictGet(rq[r].data, "status", IntV(0)) = IntV(2)
            THEN rq[r].content # <<>> /\ ReadMetadata(disk0, rq[r].id)[1] =>
                     /\ rq[r].resp = <<200, CallbackOk>>
                     /\ ReadMetadata(disk, rq[r].id)[1]
                     /\ GainedLastModified(ReadMetadata(disk0, rq[r].id)[2],
                                           ReadMetadata(disk, rq[r].id)[2])
                     /\ disk[ReadMetadata(disk0, rq[r].id)[2][2].stored_name[2]]
                            = Bytes(rq[r].content)
            ELSE disk = disk0 /\ rq[r].resp = <<200, CallbackOk>>

\* a session config has been returned for the request of slot r
ConfigReturned(r) ==
    /\ Replied(r, "editor-config") \/ Replied(r, "preview-config")
    /\ rq[r].resp[1] = 200

\* the signing secret as configured, before any coercion: the text of
\* ONLYOFFICE_SECRET when the variable is set, else the value of the file
SecretIsNonEmpty ==
    IF Getenv(environ, "ONLYOFFICE_SECRET") # NoEnv
    THEN Getenv(environ, "ONLYOFFICE_SECRET") # <<>>
    ELSE Truthy(Walk(cfgTree, SplitDots(KeySecret), StrV(DefaultSecret)))

\* onlyoffice.jwt_enabled as configured
JwtIsEnabled ==
    IF Getenv(environ, "ONLYOFFICE_JWT_ENABLED") # NoEnv
    THEN Lower(Getenv(environ, "ONLYOFFICE_JWT_ENABLED")) = Chars("true")
    ELSE Walk(cfgTree, SplitDots(KeyJwtEnabled), BoolV(TRUE)) = BoolV(TRUE)

\* C4: a session config returned for an existing identifier, in edit or in
\* preview mode, has a token field exactly when the configured secret is
\* non-empty and onlyoffice.jwt_enabled is true.
C4_TokenIffSigningConfigured ==
    \A r \in Slots :
        ConfigReturned(r) =>
            (HasField(rq[r].resp[2], "token") <=> SecretIsNonEmpty /\ JwtIsEnabled)

\* C5: when the environment variable of a key is set, Config.get returns the
\* coerced text of the variable, whatever the tree holds for the key, whatever
\* the default argument is and whatever Config.set has stored.
C5_EnvOverrideWins ==
    ret # NoRet /\ Getenv(environ, EnvKey(ret[1])) # NoEnv =>
        ret[3] = ConvertEnvValue(Getenv(environ, EnvKey(ret[1])))

\* get("server.port") answered from SERVER_PORT after set("server.port", 1)
C5_Witness ==
    /\ ret # NoRet
    /\ ret[1] = KeyServerPort
    /\ Getenv(environ, EnvKey(ret[1])) # NoEnv
    /\ Walk(cfgTree, SplitDots(KeyServerPort), None) = IntV(1)
    /\ ret[3] = IntV(80)

\* C6: for every key K without an environment override and every value V,
\* get(K) after set(K, V), save() and a fresh load() returns V.
C6_SetSaveLoadRoundTrip ==
    /\ rt[1] = 3
    /\ ret # NoRet
    /\ ret[1] = rt[2]
    /\ Getenv(environ, EnvKey(ret[1])) = NoEnv
    => ret[3] = rt[3]

\* C7: two consecutive editor configs of one identifier carry different
\* document.key session keys.
C7_ConsecutiveKeysDiffer ==
    \A r \in Slots :
        Replied(r, "editor-config") /\ rq[r].resp[1] = 200 /\ rq[r].prev # None =>
            rq[r].resp[2][2].document[2].key # rq[r].prev

\* C8: a listing does not fail, whatever the *.json files of the directory
\* hold; no delete has run, so every file the listing found is still there
\* when the listing reads it.
C8_ListSurvivesCorruptSidecar ==
    \A r \in Slots :
        /\ Replied(r, "list")
        /\ deleted = {}
        /\ \A q \in Slots : rq[q].op # "delete"
        => rq[r].resp[1] = 200

\* the ordered coercion rule: boolean, else integer, else float, else JSON
\* array or object, else the text itself
OrderedRule(value) ==
    IF Lower(value) \in {Chars("true"), Chars("false")}
    THEN BoolV(Lower(value) = Chars("true"))
    ELSE IF IsPyInt(value) THEN PyInt(value)
    ELSE IF IsPyFloat(value) THEN PyFloat(value)
    ELSE IF IsJsonText(value) /\ ParseJsonText(value)[2][1] \in {"list", "dict"}
    THEN ParseJsonText(value)[2]
    ELSE StrV(Join(value))

\* C9: _convert_env_value follows the ordered rule: "true" / "false" in any
\* letter case give a boolean, else a text int() accepts gives the integer,
\* else a text float() accepts gives the float, else valid JSON array or object
\* text gives the parsed structure, else the text is returned unchanged.
C9_OrderedCoercion ==
    converted # Pending => converted = OrderedRule(env_value)

\* the stored binary of the upload in slot r
BinaryOf(r) == StoredName(rq[r].id, PathSuffix(rq[r].filename))

\* C10: a successful upload of a file with a non-empty name leaves two distinct
\* new files in the directory: the stored binary, named identifier plus
\* extension, holding the uploaded content, and the sidecar identifier.json
\* holding the metadata.
C10_UploadCreatesTwoFiles ==
    \A r \in Slots :
        Replied(r, "upload") /\ rq[r].resp[1] = 200 =>
            /\ BinaryOf(r) # MetadataPath(rq[r].id)
            /\ ~Exists(disk0, BinaryOf(r)) /\ ~Exists(disk0, MetadataPath(rq[r].id))
            /\ Exists(disk, BinaryOf(r)) /\ Exists(disk, MetadataPath(rq[r].id))
            /\ disk[BinaryOf(r)] = Bytes(rq[r].content)
            /\ disk[MetadataPath(rq[r].id)] = JsonDumpFile(rq[r].meta)

\* the outcomes of the outbound request that are a failed fetch: a response
\* outside 2xx, or the transport raising
FailedFetches == {o \in FetchOutcomes : o[1] = "error" \/ o[2] \notin 200..299}

\* C11: when the outbound fetch of a status 2 callback fails, by a response
\* outside 2xx or by a transport failure, the callback changes no file and its
\* reply is the success envelope {error: 0}.
C11_FailedFetchStillSucceeds ==
    [][\A r \in Slots : \A outcome \in FailedFetches :
           CallbackFetch(r, outcome) =>
               /\ disk' = disk0
               /\ rq'[r].pc = "done"
               /\ rq'[r].resp = <<200, CallbackOk>>]_vars

\* the operations that look an identifier up and answer NotFound without it
LookupOps == {"download", "delete", "editor-config", "preview-config"}

\* C12: under a client that waits for each reply, once a delete of an
\* identifier has succeeded, every later download, delete, editor-config and
\* preview-config of that identifier is answered NotFound (404), whatever
\* requests came in between.
C12_DeletedStaysNotFound ==
    [][\A r \in Slots :
           /\ rq[r].pc = "idle"
           /\ rq'[r].op \in LookupOps
           /\ <<rq'[r].id, TRUE>> \in deleted
           => rq'[r] = NotFound(Begin(r, rq'[r].op, rq'[r].id))]_vars

\* a lookup of an identifier answered NotFound after its delete succeeded,
\* another identifier having been uploaded in the meantime or before
C12_Witness ==
    \E r \in Slots :
        /\ rq[r].pc = "done" /\ rq[r].op \in LookupOps
        /\ <<rq[r].id, TRUE>> \in deleted
        /\ rq[r].resp[1] = 404
        /\ uploaded \ {rq[r].id} # {}

\* what load_config promises for a file whose json.load gave loaded, the
\* store holding tree and the file holding after when it returns
LoadKeeps(file, loaded, tree, after) ==
    /\ file = Absent => tree = DefaultConfig /\ after = JsonFile(DefaultConfig)
    /\ file # Absent /\ ~loaded[1] => tree = DefaultConfig /\ after = file
    /\ file # Absent /\ loaded[1] => tree = loaded[2] /\ after = file

\* a usable configuration mapping: the store holds a mapping, in which set of
\* a key under a new section completes
UsableMapping(tree) ==
    /\ tree[1] = "dict"
    /\ Set(tree, KeyAB, IntV(1))[1]

\* C13: load() returns with a usable configuration mapping in the store: the
\* default tree, persisted, when the file is absent; the default tree, the file
\* not rewritten, when the file fails to load; the file's content when it
\* loads; and get and set work afterwards in each case.
C13_LoadLeavesUsableMapping ==
    [][CfgLoad =>
           /\ LoadKeeps(cfgFile, JsonLoads(cfgFile), cfgTree', cfgFile')
           /\ UsableMapping(cfgTree')]_vars

\* no request is between two of its steps
Quiescent == \A r \in Slots : rq[r].pc \in {"idle", "done"}

\* with the sidecar of identifier i read as loaded: the sidecar and the stored
\* binary it names are both in the directory d, or no file of i is
PairedAs(d, i, loaded) ==
    IF Exists(d, MetadataPath(i))
    THEN loaded[1] /\ HasField(loaded[2], "stored_name") /\ Exists(d, loaded[2][2].stored_name[2])
    ELSE FilesOf(d, i) = {}

Paired(d, i) == PairedAs(d, i, ReadMetadata(d, i))

\* C14: whatever the interleaving of uploads, deletes and save callbacks on one
\* identifier, once every request has completed its stored binary and its
\* sidecar both exist or are both absent, and after a delete that returned
\* success neither of them exists again.
C14_ArtifactsPairedAtRest ==
    Quiescent =>
        \A i \in Ids :
            /\ Paired(disk, i)
            /\ <<i, TRUE>> \in deleted => FilesOf(disk, i) = {}

====
